---- MODULE Spec2Model ----
(***************************************************************************)
(* Fonty: Font Glyph Replacer (src/Fonty.py).                              *)
(*                                                                         *)
(* One run of main() as a state machine.  Text read from standard input    *)
(* is a sequence of one-character strings, so that strip(), lower(),       *)
(* split(",") and int(s, 16) are computed on the characters.  An optional  *)
(* value (Python None or a value) is a set with at most one element.       *)
(* A font is a map from the codepoints it holds to glyphs; a glyph is its  *)
(* bounding box's bottom and top y, its metrics and whether it is worth    *)
(* outputting.                                                             *)
(***************************************************************************)
EXTENDS Integers, Sequences, FiniteSets, TLC

VARIABLES
    pc,               \* position of main()
    exit_status,      \* optional: the status the process ended with
    fs,               \* the filesystem: folders, directory listings, file contents
    fs0,              \* the filesystem as it was when the run started
    start_s, end_s,   \* lines 83-84
    start_cp, end_cp, \* lines 86-87 (optional)
    specific_s,       \* line 94
    codepoints,       \* line 81
    final_codepoints, \* line 106
    new_font_name, author_name, license_text,   \* lines 111-123
    source_path, dest_path, output_path,        \* lines 126-136 (optional)
    src_font, out_font,                         \* lines 142-143
    scale_factor,     \* line 157, as the fraction <<out em, src em>>
    choice,           \* line 165
    align_mode,       \* line 166
    replaced, skipped,                          \* line 169
    idx,              \* number of codepoints the for loop of line 171 has taken
    old_top_y, old_bot_y, new_top_y, new_bot_y, shift_y,   \* lines 178-203 (optional)
    stdout            \* the per-codepoint lines printed at 174, 211 and 215

vars == <<pc, exit_status, fs, fs0, start_s, end_s, start_cp, end_cp, specific_s,
          codepoints, final_codepoints, new_font_name, author_name, license_text,
          source_path, dest_path, output_path, src_font, out_font, scale_factor,
          choice, align_mode, replaced, skipped, idx,
          old_top_y, old_bot_y, new_top_y, new_bot_y, shift_y, stdout>>

-----------------------------------------------------------------------------
(* Optional values *)

None == {}

Some(v) == {v}

The(o) == CHOOSE v \in o : TRUE

-----------------------------------------------------------------------------
(* Text *)

Whitespace == {" "}

RECURSIVE lstrip(_)
lstrip(s) ==
    IF s = <<>> THEN s
    ELSE IF Head(s) \in Whitespace THEN lstrip(Tail(s)) ELSE s

RECURSIVE rstrip(_)
rstrip(s) ==
    IF s = <<>> THEN s
    ELSE IF s[Len(s)] \in Whitespace THEN rstrip(SubSeq(s, 1, Len(s) - 1)) ELSE s

strip(s) == rstrip(lstrip(s))

lower_char(c) ==
    CASE c = "A" -> "a" [] c = "B" -> "b" [] c = "C" -> "c" [] c = "D" -> "d"
      [] c = "E" -> "e" [] c = "F" -> "f" [] c = "X" -> "x" [] c = "G" -> "g"
      [] c = "Z" -> "z" [] c = "T" -> "t" [] c = "O" -> "o"
      [] OTHER -> c

lower(s) == [i \in 1..Len(s) |-> lower_char(s[i])]

startswith(s, p) == Len(s) >= Len(p) /\ SubSeq(s, 1, Len(p)) = p

\* str.split(sep) for a one-character separator: "a,,b" gives three parts.
RECURSIVE split(_, _)
split(s, sep) ==
    IF \A i \in 1..Len(s) : s[i] # sep THEN <<s>>
    ELSE LET k == CHOOSE i \in 1..Len(s) :
                      s[i] = sep /\ \A j \in 1..(i - 1) : s[j] # sep
         IN <<SubSeq(s, 1, k - 1)>> \o split(SubSeq(s, k + 1, Len(s)), sep)

\* str.replace(" ", "")
RECURSIVE replace_spaces(_)
replace_spaces(s) ==
    IF s = <<>> THEN s
    ELSE IF Head(s) = " " THEN replace_spaces(Tail(s))
         ELSE <<Head(s)>> \o replace_spaces(Tail(s))

HexDigit ==
    ("0" :> 0) @@ ("1" :> 1) @@ ("2" :> 2) @@ ("3" :> 3) @@ ("4" :> 4) @@
    ("5" :> 5) @@ ("6" :> 6) @@ ("7" :> 7) @@ ("8" :> 8) @@ ("9" :> 9) @@
    ("a" :> 10) @@ ("b" :> 11) @@ ("c" :> 12) @@ ("d" :> 13) @@ ("e" :> 14) @@
    ("f" :> 15) @@ ("A" :> 10) @@ ("B" :> 11) @@ ("C" :> 12) @@ ("D" :> 13) @@
    ("E" :> 14) @@ ("F" :> 15)

RECURSIVE hex_value(_)
hex_value(s) ==
    IF s = <<>> THEN 0
    ELSE 16 * hex_value(SubSeq(s, 1, Len(s) - 1)) + HexDigit[s[Len(s)]]

\* int(s, 16): surrounding whitespace, a sign and a 0x prefix are accepted; anything
\* else than hex digits after them raises ValueError (None here).  The digit
\* separator "_" is not a character of the inputs.
int16(s) ==
    LET t == strip(s)
        signed == t # <<>> /\ Head(t) \in {"+", "-"}
        u == IF signed THEN Tail(t) ELSE t
        v == IF Len(u) >= 2 /\ u[1] = "0" /\ u[2] \in {"x", "X"}
             THEN SubSeq(u, 3, Len(u)) ELSE u
        ok == v # <<>> /\ \A i \in 1..Len(v) : v[i] \in DOMAIN HexDigit
    IN IF ~ok THEN None
       ELSE IF signed /\ Head(t) = "-" THEN Some(0 - hex_value(v))
       ELSE Some(hex_value(v))

MaxCodepoint == 1114111

parse_hex_int(s) ==
    LET stripped == lower(strip(s))
        s_clean == IF startswith(stripped, <<"0", "x">>)
                   THEN SubSeq(stripped, 3, Len(stripped)) ELSE stripped
    IN IF s_clean = <<>> THEN None
       ELSE LET val == int16(s_clean)
            IN IF val # None /\ 0 <= The(val) /\ The(val) <= MaxCodepoint
               THEN val ELSE None

\* f.lower().endswith((".ttf", ".otf"))
endswith_font_ext(f) ==
    LET l == lower(f)
    IN Len(l) >= 4 /\ SubSeq(l, Len(l) - 3, Len(l)) \in
           {<<".", "t", "t", "f">>, <<".", "o", "t", "f">>}

\* os.path.splitext(p)[1]: from the last dot on, unless only dots precede it.
splitext_ext(f) ==
    LET dots == {i \in 1..Len(f) : f[i] = "."}
    IN IF dots = {} THEN <<>>
       ELSE LET k == CHOOSE i \in dots : \A j \in dots : j <= i
            IN IF \A j \in 1..(k - 1) : f[j] = "." THEN <<>>
               ELSE SubSeq(f, k, Len(f))

RECURSIVE dec_value(_)
dec_value(s) ==
    IF s = <<>> THEN 0
    ELSE 10 * dec_value(SubSeq(s, 1, Len(s) - 1)) + HexDigit[s[Len(s)]]

DecDigits == {"0", "1", "2", "3", "4", "5", "6", "7", "8", "9"}

\* int(choice): None where Python raises ValueError.
int10(s) ==
    LET t == strip(s)
        signed == t # <<>> /\ Head(t) \in {"+", "-"}
        u == IF signed THEN Tail(t) ELSE t
        ok == u # <<>> /\ \A i \in 1..Len(u) : u[i] \in DecDigits
    IN IF ~ok THEN None
       ELSE IF signed /\ Head(t) = "-" THEN Some(0 - dec_value(u))
       ELSE Some(dec_value(u))

-----------------------------------------------------------------------------
(* The filesystem *)

Path(folder, file) == [folder |-> folder, file |-> file]

isdir(f, folder) == folder \in f.dirs

listdir(f, folder) == f.entries[folder]

exists(f, path) == path \in DOMAIN f.data

\* os.makedirs(folder, exist_ok=True)
makedirs(f, folder) ==
    IF isdir(f, folder) THEN f
    ELSE [f EXCEPT !.dirs = @ \cup {folder},
                   !.entries = (folder :> <<>>) @@ @]

\* The file at path holds content: created if absent, overwritten otherwise.
write_file(f, path, content) ==
    [f EXCEPT !.data = (path :> content) @@ @,
              !.entries = IF exists(f, path) THEN @
                          ELSE [@ EXCEPT ![path.folder] = Append(@, path.file)]]

\* Faulty variant of copy2: the copy loses the units per em.
copy2_truncated(f, src, dst) == write_file(f, dst, [f.data[src] EXCEPT !.em = 0])

\* shutil.copy2(src, dst)
copy2(f, src, dst) == write_file(f, dst, f.data[src])

\* find_font_files(folder)
find_font_files(f, folder) ==
    IF ~isdir(f, folder) THEN <<>>
    ELSE SelectSeq(listdir(f, folder), endswith_font_ext)

\* choose_file(folder, role); line is what input() returns when it is asked.
choose_file(f, folder, line) ==
    LET files == find_font_files(f, folder)
        chosen == strip(line)
        n == IF chosen # <<>> THEN int10(chosen) ELSE Some(0)
        \* files[idx]: a negative index counts from the end, IndexError otherwise
        at == IF n = None THEN None
              ELSE IF The(n) >= 0 /\ The(n) < Len(files) THEN Some(The(n) + 1)
              ELSE IF The(n) < 0 /\ 0 - The(n) <= Len(files)
                   THEN Some(Len(files) + The(n) + 1)
              ELSE None
    IN IF files = <<>> THEN None
       ELSE IF Len(files) = 1 THEN Some(Path(folder, files[1]))
       ELSE IF at # None THEN Some(Path(folder, files[The(at)]))
       ELSE Some(Path(folder, files[1]))

-----------------------------------------------------------------------------
(* The font library: fontforge and psMat *)

Glyph(worth, bot, top, width, lsb, rsb) ==
    [worth |-> worth, bot |-> bot, top |-> top, width |-> width, lsb |-> lsb, rsb |-> rsb]

EmptyGlyph == Glyph(FALSE, 0, 0, 0, 0, 0)

NoGlyphs == [cp \in {} |-> EmptyGlyph]

NoText == <<>>

FontData(em, glyphs, name) ==
    [kind |-> "font", em |-> em, glyphs |-> glyphs, fontname |-> name,
     familyname |-> name, fullname |-> name, designer |-> NoText,
     license |-> NoText, copyright |-> NoText]

TextData == [FontData(0, NoGlyphs, NoText) EXCEPT !.kind = "text"]

\* A font handle before fontforge.open() has bound it.
Unbound ==
    [state |-> "unbound", closes |-> 0, path |-> None, data |-> FontData(0, NoGlyphs, NoText)]

\* fontforge.open(path)
fontforge_open(f, path) ==
    [state |-> "open", closes |-> 0, path |-> Some(path), data |-> f.data[path]]

\* Faulty variant of font_close: the handle stays open.
font_close_forgotten(font) == font

\* font.close()
font_close(font) == [font EXCEPT !.state = "closed", !.closes = @ + 1]

\* cp in font
font_contains(font, cp) == cp \in DOMAIN font.data.glyphs

\* Faulty variant of has_outputtable: isWorthOutputting() is not asked.
has_outputtable_any(font, cp) == font_contains(font, cp)

\* cp in font and font[cp].isWorthOutputting()
has_outputtable(font, cp) == font_contains(font, cp) /\ font.data.glyphs[cp].worth

\* font.selection.select(cp); font.clear()
font_clear(glyphs, cp) ==
    IF cp \in DOMAIN glyphs THEN [glyphs EXCEPT ![cp] = EmptyGlyph] ELSE glyphs

\* src_font.copy(); out_font.selection.select(cp); out_font.paste()
font_paste(glyphs, cp, g) == (cp :> g) @@ glyphs

\* x * (num / den); the fonts' coordinates make the quotient whole
scaled(x, sf) == (x * sf[1]) \div sf[2]

\* g.transform(psMat.scale(scale_factor))
transform_scale(g, sf) == [g EXCEPT !.bot = scaled(@, sf), !.top = scaled(@, sf)]

\* g.transform(psMat.translate(0, dy))
transform_translate(g, dy) == [g EXCEPT !.bot = @ + dy, !.top = @ + dy]

\* int(round(x * (num / den))): Python rounds a half to the even neighbour
round_scaled(x, sf) ==
    LET n == x * sf[1]
        d == sf[2]
        q == n \div d
        r == n % d
    IN IF 2 * r < d THEN q
       ELSE IF 2 * r > d THEN q + 1
       ELSE IF q % 2 = 0 THEN q ELSE q + 1

\* lines 207-209
set_metrics(g, s, sf) ==
    [g EXCEPT !.width = round_scaled(s.width, sf),
              !.lsb = round_scaled(s.lsb, sf),
              !.rsb = round_scaled(s.rsb, sf)]

\* Faulty variant of shift_for: mode 2 aligns the bottoms too.
shift_for_bottom(mode, old_top, old_bot, new_top, new_bot) ==
    IF mode = <<"2">> /\ old_bot # None THEN The(old_bot) - new_bot
    ELSE IF mode = <<"3">> /\ old_bot # None THEN The(old_bot) - new_bot
    ELSE 0

\* lines 199-203
shift_for(mode, old_top, old_bot, new_top, new_bot) ==
    IF mode = <<"2">> /\ old_top # None THEN The(old_top) - new_top
    ELSE IF mode = <<"3">> /\ old_bot # None THEN The(old_bot) - new_bot
    ELSE 0

-----------------------------------------------------------------------------
(* The codepoint collection, lines 81-106 *)

\* for cp in range(cp, stop): codepoints.add(cp)
RECURSIVE add_range(_, _, _)
add_range(S, cp, stop) ==
    IF cp >= stop THEN S ELSE add_range(S \cup {cp}, cp + 1, stop)

\* Faulty variant of range_stop: range(start_cp, end_cp).
range_stop_exclusive(end) == end

\* range(start_cp, end_cp + 1)
range_stop(end) == end + 1

\* lines 88-90
range_codepoints(S, first, last) ==
    IF first # None /\ last # None /\ The(last) >= The(first)
    THEN add_range(S, The(first), range_stop(The(last)))
    ELSE S

\* Faulty variant of add_specific: a token that does not parse adds U+0000.
RECURSIVE add_specific_zero(_, _)
add_specific_zero(S, parts) ==
    IF parts = <<>> THEN S
    ELSE LET cp == parse_hex_int(Head(parts))
         IN add_specific_zero(S \cup (IF cp # None THEN cp ELSE {0}), Tail(parts))

\* lines 96-99
RECURSIVE add_specific(_, _)
add_specific(S, parts) ==
    IF parts = <<>> THEN S
    ELSE LET cp == parse_hex_int(Head(parts))
         IN add_specific(IF cp # None THEN S \cup cp ELSE S, Tail(parts))

\* Faulty variant of sorted: descending order.
RECURSIVE sorted_descending(_)
sorted_descending(S) ==
    IF S = {} THEN <<>>
    ELSE LET most == CHOOSE x \in S : \A y \in S : x >= y
         IN <<most>> \o sorted_descending(S \ {most})

\* sorted(codepoints)
RECURSIVE sorted(_)
sorted(S) ==
    IF S = {} THEN <<>>
    ELSE LET least == CHOOSE x \in S : \A y \in S : x <= y
         IN <<least>> \o sorted(S \ {least})

-----------------------------------------------------------------------------
(* The fonts and folders a run can find, and the lines a user can type *)

source_folder == "Source"

dest_folder == "Destination"

output_folder == "Output"

\* Source font, 2000 units per em: U+0041 and U+0043 have outlines, U+0042 is an
\* empty slot, U+0024 is absent.
SourceFont ==
    FontData(2000,
             (65 :> Glyph(TRUE, 0, 1300, 1201, 101, 103)) @@
             (66 :> EmptyGlyph) @@
             (67 :> Glyph(TRUE, -400, 1000, 1000, 80, 90)),
             <<"S">>)

\* Destination font, 1000 units per em: no slot at U+0043.
DestFontD ==
    FontData(1000,
             (36 :> Glyph(TRUE, -100, 750, 560, 40, 40)) @@
             (65 :> Glyph(TRUE, 10, 700, 600, 30, 30)) @@
             (66 :> Glyph(TRUE, 0, 690, 580, 60, 20)),
             <<"D">>)

\* Destination font, 2000 units per em: outlines at all four codepoints.
DestFontE ==
    FontData(2000,
             (36 :> Glyph(TRUE, -200, 1500, 1120, 80, 80)) @@
             (65 :> Glyph(TRUE, -20, 1400, 1200, 60, 60)) @@
             (66 :> Glyph(TRUE, 0, 1380, 1160, 120, 40)) @@
             (67 :> Glyph(TRUE, -30, 1420, 1180, 70, 50)),
             <<"E">>)

s_ttf == <<"s", ".", "t", "t", "f">>

d_otf == <<"d", ".", "o", "t", "f">>

e_TTF == <<"e", ".", "T", "T", "F">>

notes_txt == <<"n", ".", "t", "x", "t">>

stale_otf == <<"M", " ", "F", ".", "o", "t", "f">>

\* Output/ absent, one font in each folder.
WorldOne ==
    [dirs |-> {source_folder, dest_folder},
     entries |-> (source_folder :> <<s_ttf>>) @@ (dest_folder :> <<d_otf>>),
     data |-> (Path(source_folder, s_ttf) :> SourceFont) @@
              (Path(dest_folder, d_otf) :> DestFontD)]

\* Output/ present and holding an earlier output, two destination fonts.
WorldTwo ==
    [dirs |-> {source_folder, dest_folder, output_folder},
     entries |-> (source_folder :> <<notes_txt, s_ttf>>) @@
                 (dest_folder :> <<d_otf, e_TTF>>) @@
                 (output_folder :> <<stale_otf>>),
     data |-> (Path(source_folder, notes_txt) :> TextData) @@
              (Path(source_folder, s_ttf) :> SourceFont) @@
              (Path(dest_folder, d_otf) :> DestFontD) @@
              (Path(dest_folder, e_TTF) :> DestFontE) @@
              (Path(output_folder, stale_otf) :> DestFontE)]

\* No Source/ folder.
WorldNoSource ==
    [dirs |-> {dest_folder, output_folder},
     entries |-> (dest_folder :> <<d_otf>>) @@ (output_folder :> <<>>),
     data |-> (Path(dest_folder, d_otf) :> DestFontD)]

\* No font file in Destination/.
WorldNoDest ==
    [dirs |-> {source_folder, dest_folder},
     entries |-> (source_folder :> <<s_ttf>>) @@ (dest_folder :> <<notes_txt>>),
     data |-> (Path(source_folder, s_ttf) :> SourceFont) @@
              (Path(dest_folder, notes_txt) :> TextData)]

Worlds == {WorldOne, WorldTwo, WorldNoSource, WorldNoDest}

\* Lines typed at "Start Unicode (hex)" and "End Unicode (hex)".
RangeInputs ==
    { <<>>, <<"4", "1">>, <<"0", "X", "4", "3", " ">>, <<"1", "1", "0", "0", "0", "0">> }

\* Tokens of the line typed at "Specific Unicodes (comma hex)".
Tokens == { <<"0", "x", "2", "4">>, <<" ", "4", "3">>, <<"z", "z">> }

MaxTokens == 2

RECURSIVE join(_)
join(parts) ==
    IF parts = <<>> THEN <<>>
    ELSE IF Len(parts) = 1 THEN parts[1]
    ELSE parts[1] \o <<",">> \o join(Tail(parts))

SpecificInputs ==
    { join(ts) : ts \in UNION { [1..n -> Tokens] : n \in 0..MaxTokens } }

NameInputs == { <<>>, <<" ", "M", " ", "F">> }

AuthorInputs == { <<" ">>, <<"A", "n", "n">> }

LicenseInputs == { <<>>, <<"O", "F", "L">> }

\* Lines typed at "Choose ... font number (default 0)".
NumberInputs == { <<>>, <<"1">>, <<"7">>, <<"-", "1">>, <<"x">> }

\* Lines typed at "Choose (default 1)".
AlignInputs == { <<>>, <<"2">>, <<" ", "3">>, <<"x">> }

\* The library calls of one loop iteration that may raise.
FailurePoints == { "clear", "paste", "scale", "translate", "metrics" }

-----------------------------------------------------------------------------
(* main() *)

Init ==
    /\ pc = "makedirs"
    /\ exit_status = None
    /\ fs \in Worlds
    /\ fs0 = fs
    /\ start_s = <<>> /\ end_s = <<>>
    /\ start_cp = None /\ end_cp = None
    /\ specific_s = <<>>
    /\ codepoints = {}
    /\ final_codepoints = <<>>
    /\ new_font_name = <<>> /\ author_name = <<>> /\ license_text = <<>>
    /\ source_path = None /\ dest_path = None /\ output_path = None
    /\ src_font = Unbound /\ out_font = Unbound
    /\ scale_factor = <<1, 1>>
    /\ choice = <<>>
    /\ align_mode = <<>>
    /\ replaced = 0 /\ skipped = 0
    /\ idx = 0
    /\ old_top_y = None /\ old_bot_y = None
    /\ new_top_y = None /\ new_bot_y = None
    /\ shift_y = None
    /\ stdout = <<>>

inputs == <<start_s, end_s, start_cp, end_cp, specific_s, codepoints, final_codepoints>>

metadata == <<new_font_name, author_name, license_text>>

paths == <<source_path, dest_path, output_path>>

fonts == <<src_font, out_font, scale_factor>>

counters == <<replaced, skipped, idx, stdout>>

glyph_locals == <<old_top_y, old_bot_y, new_top_y, new_bot_y, shift_y>>

\* line 78
MakeDirs ==
    /\ pc = "makedirs"
    /\ fs' = makedirs(fs, output_folder)
    /\ pc' = "read_range"
    /\ UNCHANGED <<exit_status, fs0, inputs, metadata, paths, fonts, choice, align_mode,
                   counters, glyph_locals>>

\* lines 81-91
ReadRange ==
    /\ pc = "read_range"
    /\ \E first \in RangeInputs, last \in RangeInputs :
         /\ start_s' = strip(first)
         /\ end_s' = strip(last)
         /\ IF start_s' # <<>> /\ end_s' # <<>>
            THEN /\ start_cp' = parse_hex_int(start_s')
                 /\ end_cp' = parse_hex_int(end_s')
                 /\ codepoints' = range_codepoints({}, start_cp', end_cp')
            ELSE /\ codepoints' = {}
                 /\ UNCHANGED <<start_cp, end_cp>>
    /\ pc' = "read_specific"
    /\ UNCHANGED <<exit_status, fs, fs0, specific_s, final_codepoints, metadata, paths,
                   fonts, choice, align_mode, counters, glyph_locals>>

\* lines 93-106
ReadSpecific ==
    /\ pc = "read_specific"
    /\ \E line \in SpecificInputs :
         /\ specific_s' = strip(line)
         /\ codepoints' = IF specific_s' # <<>>
                          THEN add_specific(codepoints, split(specific_s', ","))
                          ELSE codepoints
    /\ IF codepoints' = {}
       THEN /\ pc' = "exit_empty"
            /\ exit_status' = Some(0)
            /\ UNCHANGED final_codepoints
       ELSE /\ pc' = "font_name"
            /\ final_codepoints' = sorted(codepoints')
            /\ UNCHANGED exit_status
    /\ UNCHANGED <<fs, fs0, start_s, end_s, start_cp, end_cp, metadata, paths, fonts,
                   choice, align_mode, counters, glyph_locals>>

\* lines 110-114, one turn of the loop
ReadFontName ==
    /\ pc = "font_name"
    /\ \E line \in NameInputs : new_font_name' = strip(line)
    /\ pc' = IF new_font_name' # <<>> THEN "author_name" ELSE "font_name"
    /\ UNCHANGED <<exit_status, fs, fs0, inputs, author_name, license_text, paths, fonts,
                   choice, align_mode, counters, glyph_locals>>

\* lines 115-119, one turn of the loop
ReadAuthorName ==
    /\ pc = "author_name"
    /\ \E line \in AuthorInputs : author_name' = strip(line)
    /\ pc' = IF author_name' # <<>> THEN "license" ELSE "author_name"
    /\ UNCHANGED <<exit_status, fs, fs0, inputs, new_font_name, license_text, paths, fonts,
                   choice, align_mode, counters, glyph_locals>>

\* lines 121-123
ReadLicense ==
    /\ pc = "license"
    /\ \E line \in LicenseInputs :
         license_text' = IF strip(line) # <<>> THEN strip(line)
                         ELSE <<"(copyright sign) ">> \o author_name \o <<" All rights reserved">>
    /\ pc' = "choose_files"
    /\ UNCHANGED <<exit_status, fs, fs0, inputs, new_font_name, author_name, paths, fonts,
                   choice, align_mode, counters, glyph_locals>>

\* lines 126-129
ChooseFiles ==
    /\ pc = "choose_files"
    /\ \E n1 \in NumberInputs, n2 \in NumberInputs :
         /\ source_path' = choose_file(fs, source_folder, n1)
         /\ dest_path' = choose_file(fs, dest_folder, n2)
    /\ IF source_path' = None \/ dest_path' = None
       THEN pc' = "exit_nofonts" /\ exit_status' = Some(1)
       ELSE pc' = "copy" /\ UNCHANGED exit_status
    /\ UNCHANGED <<fs, fs0, inputs, metadata, output_path, fonts, choice, align_mode,
                   counters, glyph_locals>>

\* lines 132-134
output_ext(dst) ==
    LET ext == lower(splitext_ext(dst.file))
    IN IF ext \notin {<<".", "t", "t", "f">>, <<".", "o", "t", "f">>}
       THEN <<".", "t", "t", "f">> ELSE ext

\* line 136
output_path_for(name, dst) == Path(output_folder, name \o output_ext(dst))

\* lines 132-137
CopyDestination ==
    /\ pc = "copy"
    /\ output_path' = Some(output_path_for(new_font_name, The(dest_path)))
    /\ fs' = copy2(fs, The(dest_path), The(output_path'))
    /\ pc' = "open_fonts"
    /\ UNCHANGED <<exit_status, fs0, inputs, metadata, source_path, dest_path, fonts,
                   choice, align_mode, counters, glyph_locals>>

\* line 143: the file the output font is opened from
out_font_file == The(output_path)

\* lines 141-146: either fontforge.open() may raise
OpenFonts ==
    /\ pc = "open_fonts"
    /\ \E src_ok \in BOOLEAN, out_ok \in BOOLEAN :
         /\ src_font' = IF src_ok THEN fontforge_open(fs, The(source_path)) ELSE src_font
         /\ out_font' = IF src_ok /\ out_ok THEN fontforge_open(fs, out_font_file)
                        ELSE out_font
         /\ IF src_ok /\ out_ok
            THEN pc' = "metadata" /\ UNCHANGED exit_status
            ELSE pc' = "exit_open" /\ exit_status' = Some(1)
    /\ UNCHANGED <<fs, fs0, inputs, metadata, paths, scale_factor, choice, align_mode,
                   counters, glyph_locals>>

\* lines 149-157
SetMetadata ==
    /\ pc = "metadata"
    /\ out_font' = [out_font EXCEPT
                      !.data.fontname = replace_spaces(new_font_name),
                      !.data.familyname = new_font_name,
                      !.data.fullname = new_font_name,
                      !.data.designer = author_name,
                      !.data.copyright = <<"Copyright 2025: ">> \o author_name,
                      !.data.license = license_text]
    /\ scale_factor' = <<out_font.data.em, src_font.data.em>>
    /\ pc' = "alignment"
    /\ UNCHANGED <<exit_status, fs, fs0, inputs, metadata, paths, src_font, choice,
                   align_mode, counters, glyph_locals>>

\* line 166
mode_of(chosen) == IF chosen \in {<<"1">>, <<"2">>, <<"3">>} THEN chosen ELSE <<"1">>

\* lines 165-169
ChooseAlignment ==
    /\ pc = "alignment"
    /\ \E line \in AlignInputs :
         /\ choice' = strip(line)
         /\ align_mode' = mode_of(choice')
    /\ replaced' = 0 /\ skipped' = 0
    /\ pc' = "loop"
    /\ UNCHANGED <<exit_status, fs, fs0, inputs, metadata, paths, fonts, idx, stdout,
                   glyph_locals>>

\* the codepoint the for loop of line 171 takes next
next_cp == final_codepoints[idx + 1]

\* the for loop of line 171 goes on to the save once the sequence is used up
after_iteration == IF idx + 1 < Len(final_codepoints) THEN "loop" ELSE "generate"

\* lines 173-176
TransferSkip ==
    /\ pc = "loop"
    /\ ~has_outputtable(src_font, next_cp)
    /\ stdout' = Append(stdout, <<"skipped", next_cp>>)
    /\ skipped' = skipped + 1
    /\ idx' = idx + 1
    /\ pc' = after_iteration
    /\ UNCHANGED <<exit_status, fs, fs0, inputs, metadata, paths, fonts, choice,
                   align_mode, replaced, glyph_locals>>

\* Faulty variant of replaced_after: the count is taken before the calls that may raise.
replaced_after_always(n, failed) == n + 1

\* line 212 is reached only when no call of the iteration raised
replaced_after(n, failed) == IF failed = "none" THEN n + 1 ELSE n

\* Faulty variant of after_glyph: the exception leaves the loop and ends the run.
after_glyph_reraise(failed) == IF failed = "none" THEN after_iteration ELSE "aborted"

\* lines 214-216: the except clause prints and the for loop goes on
after_glyph(failed) == after_iteration

\* lines 178-216; failed is the library call that raises, "none" if none does
TransferGlyph ==
    /\ pc = "loop"
    /\ has_outputtable(src_font, next_cp)
    /\ \E failed \in FailurePoints \cup {"none"} :
         LET cp == next_cp
             had_old == has_outputtable(out_font, cp)
             old_top == IF had_old THEN Some(out_font.data.glyphs[cp].top) ELSE None
             old_bot == IF had_old THEN Some(out_font.data.glyphs[cp].bot) ELSE None
             cleared == font_clear(out_font.data.glyphs, cp)
             pasted == font_paste(cleared, cp, src_font.data.glyphs[cp])
             g1 == transform_scale(pasted[cp], scale_factor)
             shift == shift_for(align_mode, old_top, old_bot, g1.top, g1.bot)
             g2 == transform_translate(g1, shift)
             g3 == set_metrics(g2, src_font.data.glyphs[cp], scale_factor)
             measured == failed \in {"translate", "metrics", "none"}
         IN /\ old_top_y' = old_top
            /\ old_bot_y' = old_bot
            /\ new_top_y' = IF measured THEN Some(g1.top) ELSE new_top_y
            /\ new_bot_y' = IF measured THEN Some(g1.bot) ELSE new_bot_y
            /\ shift_y' = IF measured THEN Some(shift) ELSE shift_y
            /\ out_font' = [out_font EXCEPT !.data.glyphs =
                              CASE failed = "clear" -> @
                                [] failed = "paste" -> cleared
                                [] failed = "scale" -> pasted
                                [] failed = "translate" -> [pasted EXCEPT ![cp] = g1]
                                [] failed = "metrics" -> [pasted EXCEPT ![cp] = g2]
                                [] OTHER -> [pasted EXCEPT ![cp] = g3]]
            /\ replaced' = replaced_after(replaced, failed)
            /\ stdout' = Append(stdout,
                                <<IF failed = "none" THEN "replaced" ELSE "error", cp>>)
            /\ pc' = after_glyph(failed)
    /\ idx' = idx + 1
    /\ UNCHANGED <<exit_status, fs, fs0, inputs, metadata, paths, src_font, scale_factor,
                   choice, align_mode, skipped>>

\* Faulty variant of generate_path: the save goes to the destination file.
generate_path_dest == The(dest_path)

\* line 219: the path the output font is written to
generate_path == The(output_path)

\* lines 219-222
Generate ==
    /\ pc = "generate"
    /\ fs' = write_file(fs, generate_path, out_font.data)
    /\ pc' = "close_src"
    /\ UNCHANGED <<exit_status, fs0, inputs, metadata, paths, fonts, choice, align_mode,
                   counters, glyph_locals>>

\* line 224
CloseSource ==
    /\ pc = "close_src"
    /\ src_font' = font_close(src_font)
    /\ pc' = "close_out"
    /\ UNCHANGED <<exit_status, fs, fs0, inputs, metadata, paths, out_font, scale_factor,
                   choice, align_mode, counters, glyph_locals>>

\* line 225, and the end of the script
CloseOutput ==
    /\ pc = "close_out"
    /\ out_font' = font_close(out_font)
    /\ pc' = "done"
    /\ exit_status' = Some(0)
    /\ UNCHANGED <<fs, fs0, inputs, metadata, paths, src_font, scale_factor, choice,
                   align_mode, counters, glyph_locals>>

Next ==
    \/ MakeDirs
    \/ ReadRange
    \/ ReadSpecific
    \/ ReadFontName
    \/ ReadAuthorName
    \/ ReadLicense
    \/ ChooseFiles
    \/ CopyDestination
    \/ OpenFonts
    \/ SetMetadata
    \/ ChooseAlignment
    \/ TransferSkip
    \/ TransferGlyph
    \/ Generate
    \/ CloseSource
    \/ CloseOutput

Spec == Init /\ [][Next]_vars

\* The script runs on: no step that can be taken is put off for ever.
FairSpec == Spec /\ WF_vars(Next)

-----------------------------------------------------------------------------
(* Vocabulary of the properties *)

Collected == pc \notin {"makedirs", "read_range", "read_specific"}

InLoopOrAfter == pc \in {"loop", "generate", "close_src", "close_out", "done"}

Saved == pc \in {"close_src", "close_out", "done"}

Range(seq) == {seq[i] : i \in 1..Len(seq)}

\* The slot of a glyph map at a codepoint: None if the map has none.
SlotAt(glyphs, cp) == IF cp \in DOMAIN glyphs THEN Some(glyphs[cp]) ELSE None

\* The destination font file as it was before the run.
OriginalDest == fs0.data[The(dest_path)]

\* The files under a folder, with their contents.
FilesUnder(f, folder) == {<<p, f.data[p]>> : p \in {q \in DOMAIN f.data : q.folder = folder}}

\* The codepoints printed so far, in the order of the prints.
Visited == [i \in 1..Len(stdout) |-> stdout[i][2]]

Printed(kind) == {i \in 1..Len(stdout) : stdout[i][1] = kind}

-----------------------------------------------------------------------------
(* C1 *)

\* C1: the destination file is copied to the output path before any font is opened;
\* the opened output font is the copy, the save goes to the output path, and no file
\* under Destination/ (nor any file but the one at the output path) ever changes.
C1_OnlyTheCopyIsMutated ==
    /\ \A p \in DOMAIN fs0.data :
         p.folder = dest_folder => p \in DOMAIN fs.data /\ fs.data[p] = fs0.data[p]
    /\ \A p \in DOMAIN fs.data :
         (output_path = None \/ p # The(output_path)) =>
             p \in DOMAIN fs0.data /\ fs.data[p] = fs0.data[p]
    /\ (src_font.state # "unbound" \/ out_font.state # "unbound") =>
         /\ output_path # None
         /\ The(output_path).folder = output_folder
         /\ exists(fs, The(output_path))
    /\ out_font.state # "unbound" => out_font.path = output_path
    /\ pc \in {"open_fonts", "metadata", "alignment", "loop", "generate", "exit_open"} =>
         fs.data[The(output_path)] = OriginalDest
    /\ Saved => fs.data[The(output_path)] = out_font.data

\* C1 witness: a finished run whose saved output differs from the destination file.
C1_Witness ==
    /\ pc = "done"
    /\ replaced >= 1
    /\ fs.data[The(output_path)] # OriginalDest
    /\ fs.data[The(dest_path)] = OriginalDest

-----------------------------------------------------------------------------
(* C2 *)

\* C2 as stated: at every exit with status 1, nothing has been created or changed
\* under Output/.
C2_NothingAtOutputOnFatalExit ==
    exit_status = Some(1) => FilesUnder(fs, output_folder) = FilesUnder(fs0, output_folder)

\* C2 amended: the exit for missing font files leaves every file as it was and comes
\* before the output path is computed; the exit for a font that cannot be opened
\* comes after the copy, so the output path holds an unchanged copy of the
\* destination file, no other file has changed, and the output font was never bound,
\* hence never mutated or saved.
C2_FatalExitsBeforeFontMutation ==
    /\ exit_status = Some(1) <=> pc \in {"exit_nofonts", "exit_open"}
    /\ pc = "exit_nofonts" =>
         /\ source_path = None \/ dest_path = None
         /\ output_path = None
         /\ fs.data = fs0.data
         /\ src_font = Unbound /\ out_font = Unbound
    /\ pc = "exit_open" =>
         /\ The(output_path).folder = output_folder
         /\ fs.data[The(output_path)] = OriginalDest
         /\ \A p \in DOMAIN fs.data :
              p # The(output_path) => p \in DOMAIN fs0.data /\ fs.data[p] = fs0.data[p]
         /\ out_font = Unbound

\* C2 witness: a font could not be opened, and the output file is new.
C2_Witness ==
    /\ pc = "exit_open"
    /\ ~exists(fs0, The(output_path))
    /\ exists(fs, The(output_path))

-----------------------------------------------------------------------------
(* C3 *)

\* The range and the list that were typed yield no valid codepoint.
NoValidCodepoint ==
    /\ \/ start_s = <<>> \/ end_s = <<>>
       \/ parse_hex_int(start_s) = None \/ parse_hex_int(end_s) = None
       \/ The(parse_hex_int(end_s)) < The(parse_hex_int(start_s))
    /\ \A part \in Range(split(specific_s, ",")) : parse_hex_int(part) = None

\* C3 as stated: the run with no valid codepoint exits with status 0 and the
\* filesystem, folders included, is as it was; no font was opened.
C3_NoFilesystemChangeOnEmpty ==
    pc = "exit_empty" =>
        /\ exit_status = Some(0)
        /\ fs = fs0
        /\ src_font = Unbound /\ out_font = Unbound

\* C3 amended: the run with no valid codepoint exits with status 0; no file has been
\* created, copied or modified and no font was opened; the one change on the
\* filesystem is the Output/ folder, created empty at startup if it was absent.
C3_OnlyOutputFolderOnEmpty ==
    /\ (Collected /\ NoValidCodepoint) => pc = "exit_empty"
    /\ pc = "exit_empty" =>
         /\ NoValidCodepoint
         /\ exit_status = Some(0)
         /\ fs.data = fs0.data
         /\ fs.dirs = fs0.dirs \cup {output_folder}
         /\ \A d \in fs0.dirs : fs.entries[d] = fs0.entries[d]
         /\ fs.entries[output_folder] =
              (IF output_folder \in fs0.dirs THEN fs0.entries[output_folder] ELSE <<>>)
         /\ src_font = Unbound /\ out_font = Unbound
         /\ output_path = None

\* C3 witness: both bounds and the list were typed, none valid together, and the
\* Output/ folder exists now though it did not before.
C3_Witness ==
    /\ pc = "exit_empty"
    /\ start_s # <<>> /\ end_s # <<>> /\ specific_s # <<>>
    /\ output_folder \notin fs0.dirs
    /\ output_folder \in fs.dirs

-----------------------------------------------------------------------------
(* C4 *)

\* The source font has no outputtable glyph at cp.
MissingInSource(cp) ==
    cp \notin DOMAIN src_font.data.glyphs \/ ~src_font.data.glyphs[cp].worth

\* C4: every visited codepoint the source font has no outputtable glyph for is
\* printed as skipped and counted once in skipped, the output font's slot there is
\* the destination's original slot, in memory and in the saved file; the loop is
\* never left before the sequence is used up, and the save follows.
C4_MissingSourceGlyphSkipped ==
    InLoopOrAfter =>
        /\ idx = Len(stdout) /\ idx <= Len(final_codepoints)
        /\ \A i \in 1..idx :
             MissingInSource(final_codepoints[i]) =>
                 /\ stdout[i] = <<"skipped", final_codepoints[i]>>
                 /\ SlotAt(out_font.data.glyphs, final_codepoints[i])
                      = SlotAt(OriginalDest.glyphs, final_codepoints[i])
                 /\ Saved => SlotAt(fs.data[The(output_path)].glyphs, final_codepoints[i])
                               = SlotAt(OriginalDest.glyphs, final_codepoints[i])
        /\ skipped = Cardinality({i \in 1..idx : MissingInSource(final_codepoints[i])})
        /\ pc # "loop" => idx = Len(final_codepoints)
        /\ Saved => fs.data[The(output_path)] = out_font.data

\* C4 witness: a finished run that skipped U+0042, an empty slot of the source
\* font that the destination has a glyph for, and replaced a later codepoint.
C4_Witness ==
    /\ pc = "done"
    /\ \E i \in 1..Len(stdout) : \E j \in (i + 1)..Len(stdout) :
         /\ stdout[i] = <<"skipped", 66>>
         /\ stdout[j][1] = "replaced"
    /\ OriginalDest.glyphs[66].worth
    /\ fs.data[The(output_path)].glyphs[66] = OriginalDest.glyphs[66]

-----------------------------------------------------------------------------
(* C5 *)

\* C5: whichever library calls raise in the transfer loop, the run goes on: from
\* every point of the loop it reaches the end, having printed one line for every
\* codepoint of the sequence, in the order of the sequence, and having saved the
\* output font.
C5_LoopSurvivesExceptions ==
    (pc = "loop") ~>
        (/\ pc = "done"
         /\ Visited = final_codepoints
         /\ fs.data[The(output_path)] = out_font.data
         /\ exit_status = Some(0))

\* C5 witness: a finished run in which a codepoint raised and a later one was
\* still replaced.
C5_Witness ==
    /\ pc = "done"
    /\ \E i \in Printed("error") : \E j \in Printed("replaced") : i < j
    /\ Visited = final_codepoints

-----------------------------------------------------------------------------
(* C6 *)

\* C6: the sequence the loop takes its codepoints from is strictly ascending,
\* holds exactly the collected codepoints, and the loop visits it in order, each
\* element once, whatever the order of the tokens typed and their overlap with
\* the range.
C6_AscendingNoDuplicates ==
    (Collected /\ pc # "exit_empty") =>
        /\ \A i \in 1..Len(final_codepoints) : \A j \in 1..Len(final_codepoints) :
             i < j => final_codepoints[i] < final_codepoints[j]
        /\ Range(final_codepoints) = codepoints
        /\ Len(final_codepoints) = Cardinality(codepoints)
        /\ Len(stdout) <= Len(final_codepoints)
        /\ \A i \in 1..Len(stdout) : Visited[i] = final_codepoints[i]
        /\ pc \in {"generate", "close_src", "close_out", "done"} =>
             Visited = final_codepoints

\* C6 witness: the range 41..43 with the list "43,0x24" (out of order, one token
\* inside the range) was processed as U+0024, U+0041, U+0042, U+0043.
C6_Witness ==
    /\ pc = "done"
    /\ start_cp = Some(65) /\ end_cp = Some(67)
    /\ specific_s = <<"4", "3", ",", "0", "x", "2", "4">>
    /\ Visited = <<36, 65, 66, 67>>

-----------------------------------------------------------------------------
(* C7 *)

\* What the range typed contributes: [start_cp, end_cp] when both lines are not
\* blank, both parse and end_cp >= start_cp; nothing otherwise.
RangePart ==
    IF /\ start_s # <<>> /\ end_s # <<>>
       /\ start_cp # None /\ end_cp # None
       /\ The(end_cp) >= The(start_cp)
    THEN The(start_cp)..The(end_cp)
    ELSE {}

\* The valid tokens of the list typed.
ListPart == UNION {parse_hex_int(part) : part \in Range(split(specific_s, ","))}

\* C7: after the range is read the codepoint set is exactly [start_cp, end_cp] when
\* both bounds are valid and ordered and empty otherwise; after the list is read it
\* is that set together with the valid tokens of the list.
C7_RangeContribution ==
    /\ (start_s # <<>> /\ end_s # <<>> /\ pc # "read_range") =>
         start_cp = parse_hex_int(start_s) /\ end_cp = parse_hex_int(end_s)
    /\ (start_s = <<>> \/ end_s = <<>>) => start_cp = None /\ end_cp = None
    /\ pc = "read_specific" => codepoints = RangePart
    /\ Collected => codepoints = RangePart \cup ListPart
    /\ (start_s = <<"4", "1">> /\ end_s = <<"0", "X", "4", "3">>) =>
         RangePart = {65, 66, 67}
    /\ (start_s = <<"0", "X", "4", "3">> /\ end_s = <<"4", "1">>) => RangePart = {}
    /\ (start_s = <<"1", "1", "0", "0", "0", "0">> \/ end_s = <<"1", "1", "0", "0", "0", "0">>)
         => RangePart = {}

\* C7 witness: the range 41..43 contributed three codepoints and the list one more.
C7_Witness ==
    /\ pc = "font_name"
    /\ RangePart = {65, 66, 67}
    /\ codepoints = {36, 65, 66, 67}

\* C7 witness of the other case: end below start, the set is the list's tokens.
C7_WitnessReversed ==
    /\ pc = "font_name"
    /\ start_cp = Some(67) /\ end_cp = Some(65)
    /\ codepoints = {36}

-----------------------------------------------------------------------------
(* C8 *)

\* The last line printed says that a glyph was replaced: the locals of the
\* iteration are those of that glyph.
JustReplaced == stdout # <<>> /\ stdout[Len(stdout)][1] = "replaced"

LastCp == stdout[Len(stdout)][2]

\* The destination font had an outputtable glyph at cp before the run.
HadPrior(cp) == cp \in DOMAIN OriginalDest.glyphs /\ OriginalDest.glyphs[cp].worth

\* C8: the mode is 1, 2 or 3 throughout the loop, the one typed if it is one of
\* them and 1 otherwise; for a replaced glyph the scaled glyph's top and bottom are
\* the source's times the em ratio, and the shift is old top - new top in mode 2 and
\* old bottom - new bottom in mode 3 when the destination had a glyph there (the
\* result's top, or bottom, is then the old one), and 0 otherwise.
C8_VerticalShift ==
    InLoopOrAfter =>
        /\ align_mode \in {<<"1">>, <<"2">>, <<"3">>}
        /\ choice \in {<<"1">>, <<"2">>, <<"3">>} => align_mode = choice
        /\ choice \in {<<>>, <<"x">>} => align_mode = <<"1">>
        /\ JustReplaced =>
             LET cp == LastCp
                 old == OriginalDest.glyphs
                 src == src_font.data.glyphs[cp]
                 new == out_font.data.glyphs[cp]
             IN /\ new_top_y # None /\ new_bot_y # None /\ shift_y # None
                /\ The(new_top_y) * src_font.data.em = src.top * out_font.data.em
                /\ The(new_bot_y) * src_font.data.em = src.bot * out_font.data.em
                /\ new.top = The(new_top_y) + The(shift_y)
                /\ new.bot = The(new_bot_y) + The(shift_y)
                /\ (align_mode = <<"2">> /\ HadPrior(cp)) =>
                     /\ The(shift_y) = old[cp].top - The(new_top_y)
                     /\ new.top = old[cp].top
                /\ (align_mode = <<"3">> /\ HadPrior(cp)) =>
                     /\ The(shift_y) = old[cp].bot - The(new_bot_y)
                     /\ new.bot = old[cp].bot
                /\ (align_mode = <<"1">> \/ ~HadPrior(cp)) => The(shift_y) = 0
                /\ (align_mode = <<"2">> /\ old_top_y = Some(700) /\ new_top_y = Some(650))
                     => The(shift_y) = 50

\* C8 witness: mode 2, old top 700, new top 650, shift +50, result's top 700.
C8_Witness ==
    /\ InLoopOrAfter /\ JustReplaced
    /\ align_mode = <<"2">>
    /\ old_top_y = Some(700) /\ new_top_y = Some(650) /\ shift_y = Some(50)
    /\ out_font.data.glyphs[LastCp].top = 700

\* C8 witness of mode 3, and of a codepoint the destination had no glyph for.
C8_WitnessBottom ==
    /\ InLoopOrAfter /\ JustReplaced
    /\ align_mode = <<"3">>
    /\ HadPrior(LastCp) /\ shift_y # Some(0)

C8_WitnessNoPrior ==
    /\ InLoopOrAfter /\ JustReplaced
    /\ align_mode = <<"2">>
    /\ ~HadPrior(LastCp) /\ shift_y = Some(0)

-----------------------------------------------------------------------------
(* C9 *)

\* C9 as stated: when the process has ended no font handle is open: after a
\* finished run each handle was closed once, after the save, and on an early exit
\* no handle was ever opened.
C9_NoHandleLeftOpen ==
    /\ exit_status # None => src_font.state # "open" /\ out_font.state # "open"
    /\ pc = "done" =>
         /\ src_font.state = "closed" /\ src_font.closes = 1
         /\ out_font.state = "closed" /\ out_font.closes = 1
    /\ pc \in {"exit_empty", "exit_nofonts", "exit_open"} =>
         src_font = Unbound /\ out_font = Unbound

\* C9 amended: after a finished run each handle was closed once, after the save; on
\* the exits for no codepoint and for missing font files no handle was ever opened;
\* on the exit for a font that cannot be opened the output handle was never opened,
\* and the source handle, if it was opened, is left open.
C9_HandlesClosedOnceAfterSave ==
    /\ src_font.closes <= 1 /\ out_font.closes <= 1
    /\ (src_font.state = "closed" \/ out_font.state = "closed") =>
         Saved /\ fs.data[The(output_path)] = out_font.data
    /\ pc = "done" =>
         /\ src_font.state = "closed" /\ src_font.closes = 1
         /\ out_font.state = "closed" /\ out_font.closes = 1
    /\ pc \in {"exit_empty", "exit_nofonts"} => src_font = Unbound /\ out_font = Unbound
    /\ pc = "exit_open" =>
         /\ out_font = Unbound
         /\ src_font.state \in {"unbound", "open"}
         /\ src_font.closes = 0

\* C9 witness: the source font was opened, the output font could not be, and the
\* process has ended with the source handle open.
C9_Witness ==
    /\ pc = "exit_open"
    /\ exit_status = Some(1)
    /\ src_font.state = "open"

-----------------------------------------------------------------------------
(* C10 *)

\* C10: in the loop and after it, replaced and skipped count the lines printed for
\* replaced and skipped codepoints, one line per visited codepoint, so that
\* replaced + skipped is the number of visited codepoints less those that raised;
\* once the loop is over every codepoint of the sequence has been visited.
C10_CounterAccounting ==
    InLoopOrAfter =>
        /\ idx = Len(stdout)
        /\ \A i \in 1..Len(stdout) : stdout[i][1] \in {"replaced", "skipped", "error"}
        /\ replaced = Cardinality(Printed("replaced"))
        /\ skipped = Cardinality(Printed("skipped"))
        /\ replaced + skipped <= idx
        /\ replaced + skipped = idx - Cardinality(Printed("error"))
        /\ pc # "loop" =>
             replaced + skipped = Len(final_codepoints) - Cardinality(Printed("error"))

\* C10 witness: a finished run in which a codepoint raised after its slot in the
\* output font had been cleared, so that the counters add up to less than the
\* number of codepoints.
C10_Witness ==
    /\ pc = "done"
    /\ \E i \in Printed("error") :
         /\ HadPrior(stdout[i][2])
         /\ out_font.data.glyphs[stdout[i][2]] = EmptyGlyph
    /\ replaced >= 1 /\ skipped >= 1
    /\ replaced + skipped < Len(final_codepoints)

====
